---------------------------- MODULE Spec2Model ----------------------------
(***************************************************************************)
(* Model of the capture-and-match core of the biometric face               *)
(* identification system: FaceRecognizer (core/face_recognizer.py),        *)
(* FaceIdentification (core/identification.py) and UserRegistration        *)
(* (core/registration.py).                                                 *)
(*                                                                         *)
(* Numbers.  Descriptor components and distances are fixed-point numbers   *)
(* in units of 1/100, so the default recognition threshold 0.6 is 60.      *)
(* Confidence is in units of 1/100 as well (1.0 is 100).  A descriptor has *)
(* DescriptorLen components here where the program has 128.                *)
(***************************************************************************)
EXTENDS Integers, Sequences, FiniteSets, TLC

(***************************************************************************)
(* Bounds of the model.                                                    *)
(***************************************************************************)
DescriptorLen == 2      \* components of a well-formed descriptor (128 in the program)
MaxUser == 2            \* user ids are 1..MaxUser
MaxDb == 2              \* longest database handed to the recognizer
MaxK == 3               \* largest top_k
MaxRepo == 2            \* most biometric templates in the repository
MaxLog == 1             \* most access-log rows written in one run
MaxQueries == 2         \* most repository queries of cache loads in one run
MaxPasses == 1          \* most identify_frame passes in one run
MaxTime == 450          \* the clock stops here
MaxFacesPerFrame == 2   \* MAX_FACES_PER_FRAME (10 in the program)
MaxDetected == 1        \* faces the detector finds in a frame of the worker

(***************************************************************************)
(* Program constants.                                                      *)
(***************************************************************************)
FACE_RECOGNITION_THRESHOLD == 60
Inf == 1000000          \* float('inf'): above every finite distance and threshold
NoUser == 0             \* None where a user id is expected

CACHE_TTL == 300        \* seconds
NoList == 0             \* None where a list object is expected
NoTime == -1            \* None where a datetime is expected
NoConfidence == -1      \* None where a confidence is expected

UserIds == 1..MaxUser
Components == {0, 60}
Thresholds == {30, FACE_RECOGNITION_THRESHOLD, 90}

\* numpy arrays of shape (n,): the same value in every component, or a value in
\* the first component and 0 in the others
Arrays(n) ==
    {[i \in 1..n |-> c] : c \in Components}
        \cup {[i \in 1..n |-> IF i = 1 THEN c ELSE 0] : c \in Components}
GoodDescriptors == Arrays(DescriptorLen)
ShortDescriptors == Arrays(DescriptorLen - 1)
AnyDescriptors == GoodDescriptors \cup ShortDescriptors

\* (user_id, descriptor) tuples of a database list
Entries == [user_id : UserIds, descriptor : AnyDescriptors]

RECURSIVE SeqsUpTo(_, _)
SeqsUpTo(S, n) ==
    IF n = 0 THEN {<<>>}
    ELSE LET shorter == SeqsUpTo(S, n - 1)
         IN  shorter \cup {Append(s, x) : s \in {t \in shorter : Len(t) = n - 1}, x \in S}

Databases == SeqsUpTo(Entries, MaxDb)

\* BiometricTemplate.descriptor is a JSON column: a list of numbers of any
\* length, or any other JSON value (shown as kind "text")
JsonDescriptors ==
    {[kind |-> "list", val |-> d] : d \in AnyDescriptors}
        \cup {[kind |-> "text", val |-> <<>>]}

\* rows of biometric_templates
Templates == [user_id : UserIds, descriptor : JsonDescriptors]

\* what the camera and the external models give for one detected face: whether
\* the region could be cut out, whether a descriptor was extracted, and it;
\* raises tells whether the database session raises while the face is looked
\* up and logged
Faces ==
    {[region |-> FALSE, encoded |-> FALSE, descriptor |-> <<>>, raises |-> FALSE],
     [region |-> TRUE, encoded |-> FALSE, descriptor |-> <<>>, raises |-> FALSE]}
        \cup {[region |-> TRUE, encoded |-> TRUE, descriptor |-> d, raises |-> FALSE] :
                  d \in GoodDescriptors}

VARIABLES
    threshold,          \* FaceRecognizer.threshold
    call,               \* the call made last: its name and arguments
    ret,                \* what that call returned
    users,              \* ids of the rows of table users
    templates,          \* rows of table biometric_templates, in query order
    accessLog,          \* rows of table access_log, in insertion order
    lists,              \* the Python list objects built by cache loads, by identity
    descriptors_cache,  \* FaceIdentification._descriptors_cache: NoList or a list's identity
    cache_timestamp,    \* FaceIdentification._cache_timestamp: NoTime or a time
    now,                \* datetime.utcnow(), in seconds
    vlocal,             \* locals of a verify_user call suspended at an await
    load,               \* per caller: locals of its load_descriptors_cache call
    fetched,            \* per list object: the rows its load got from the repository
    queries,            \* how many times BiometricTemplateRepository.get_all ran
    wk,                 \* locals of the identify_frame pass of the worker
    en,                 \* a register_user call: its result, the locals of _capture_photos
                        \* and what the camera delivered to it
    vp                  \* the VideoProcessor of the main window: its fields, where its
                        \* thread is, the signals it emitted and what it has done

matchVars == <<threshold, call, ret>>
dbVars == <<users, templates, accessLog>>
cacheVars == <<lists, descriptors_cache, cache_timestamp, now>>
loadVars == <<load, fetched, queries>>
vars == <<threshold, call, ret, users, templates, accessLog,
          lists, descriptors_cache, cache_timestamp, now, vlocal,
          load, fetched, queries, wk, en, vp>>

(***************************************************************************)
(* FaceRecognizer                                                          *)
(***************************************************************************)
Abs(x) == IF x < 0 THEN -x ELSE x

RECURSIVE SumSq(_, _, _)
SumSq(a, b, i) ==
    IF i > Len(a) THEN 0
    ELSE (a[i] - b[i]) * (a[i] - b[i]) + SumSq(a, b, i + 1)

RECURSIVE SumAbs(_, _, _)
SumAbs(a, b, i) ==
    IF i > Len(a) THEN 0 ELSE Abs(a[i] - b[i]) + SumAbs(a, b, i + 1)

\* np.linalg.norm(desc1 - desc2), rounded down to the fixed-point grid
Norm(a, b) ==
    LET n == SumSq(a, b, 1)
    IN  CHOOSE r \in 0..SumAbs(a, b, 1) : r * r <= n /\ n < (r + 1) * (r + 1)

calculate_distance_no_shape_check(desc1, desc2) ==
    IF Len(desc1) <= Len(desc2) THEN Norm(desc1, desc2) ELSE Norm(desc2, desc1)

calculate_distance(desc1, desc2) ==
    IF Len(desc1) # Len(desc2) THEN Inf ELSE Norm(desc1, desc2)

verify_exclusive(descriptor1, descriptor2, thr) ==
    LET distance == calculate_distance(descriptor1, descriptor2)
    IN  [is_match |-> distance < thr, distance |-> distance]

verify(descriptor1, descriptor2, thr) ==
    LET distance == calculate_distance(descriptor1, descriptor2)
    IN  [is_match |-> distance <= thr, distance |-> distance]

NoMatch == [found |-> FALSE, user_id |-> NoUser, distance |-> Inf]
Match(u, d) == [found |-> TRUE, user_id |-> u, distance |-> d]

\* the for loop of identify: one comparison per entry, in database order
RECURSIVE IdentifyLoop(_, _, _, _, _)
IdentifyLoop(descriptor, database, i, best_match, best_distance) ==
    IF i > Len(database) THEN [best_match |-> best_match, best_distance |-> best_distance]
    ELSE LET distance == calculate_distance(descriptor, database[i].descriptor)
         IN  IF distance < best_distance
             THEN IdentifyLoop(descriptor, database, i + 1, database[i].user_id, distance)
             ELSE IdentifyLoop(descriptor, database, i + 1, best_match, best_distance)

identify_last_wins(descriptor, database, thr) ==
    IF database = <<>> THEN NoMatch
    ELSE LET rev == [i \in 1..Len(database) |-> database[Len(database) + 1 - i]]
             best == IdentifyLoop(descriptor, rev, 1, NoUser, Inf)
         IN  IF best.best_distance <= thr
             THEN Match(best.best_match, best.best_distance)
             ELSE NoMatch

identify(descriptor, database, thr) ==
    IF database = <<>> THEN NoMatch
    ELSE LET best == IdentifyLoop(descriptor, database, 1, NoUser, Inf)
         IN  IF best.best_distance <= thr
             THEN Match(best.best_match, best.best_distance)
             ELSE NoMatch

\* list.sort(key=lambda x: x[1]): a stable sort by distance
RECURSIVE InsertByDistance(_, _)
InsertByDistance(sorted, m) ==
    IF sorted = <<>> THEN <<m>>
    ELSE IF sorted[Len(sorted)].distance <= m.distance THEN Append(sorted, m)
    ELSE Append(InsertByDistance(SubSeq(sorted, 1, Len(sorted) - 1), m), sorted[Len(sorted)])

RECURSIVE SortByDistance(_)
SortByDistance(matches) ==
    IF matches = <<>> THEN <<>>
    ELSE InsertByDistance(SortByDistance(SubSeq(matches, 1, Len(matches) - 1)),
                          matches[Len(matches)])

\* matches[:top_k] of a Python list
SliceTo(matches, top_k) ==
    LET n == Len(matches)
        stop == IF top_k >= n THEN n
                ELSE IF top_k >= 0 THEN top_k
                ELSE IF n + top_k >= 0 THEN n + top_k ELSE 0
    IN  SubSeq(matches, 1, stop)

AllMatches(descriptor, database) ==
    [i \in 1..Len(database) |->
        [user_id |-> database[i].user_id,
         distance |-> calculate_distance(descriptor, database[i].descriptor)]]

identify_multiple_thresholded(descriptor, database, top_k, thr) ==
    IF database = <<>> THEN <<>>
    ELSE SliceTo(SelectSeq(SortByDistance(AllMatches(descriptor, database)),
                           LAMBDA m : m.distance <= thr), top_k)

identify_multiple(descriptor, database, top_k, thr) ==
    IF database = <<>> THEN <<>>
    ELSE SliceTo(SortByDistance(AllMatches(descriptor, database)), top_k)

(***************************************************************************)
(* Calls of the recognizer, with their arguments drawn from bounded sets.  *)
(***************************************************************************)
NoCall ==
    [op |-> "none", descriptor |-> <<>>, other |-> <<>>, database |-> <<>>, top_k |-> 0,
     force_reload |-> FALSE, frame |-> <<>>]

\* no verify_user call is suspended
NoVerify == [pc |-> "idle", user_id |-> NoUser, distance |-> Inf]

Callers == {"ui", "worker"}

\* no load_descriptors_cache call is in progress
IdleLoad ==
    [pc |-> "idle", force |-> FALSE, hit |-> FALSE, queried |-> FALSE,
     rows |-> <<>>, target |-> NoList, i |-> 1, ret |-> 0]

\* no identify_frame pass is in progress
IdleWorker ==
    [pc |-> "idle", passes |-> 0, frame |-> <<>>, f |-> 1, ref |-> NoList, i |-> 1,
     best_match |-> NoUser, best_distance |-> Inf, results |-> <<>>,
     stale |-> FALSE, requeried |-> FALSE, snap |-> <<>>, seen |-> <<>>]

\* RegistrationResult(), and the locals of _capture_photos before its loop
NewRegistration ==
    [success |-> FALSE, user_id |-> NoUser, photos_captured |-> 0, templates_created |-> 0,
     message |-> [kind |-> "", got |-> 0, need |-> 0]]

IdleEnroll ==
    [pc |-> "idle", result |-> NewRegistration, photos_data |-> <<>>, frame_count |-> 0,
     consecutive_failures |-> 0, sessions |-> 0, valid_read |-> 0, valid_at_third |-> 0,
     clean_tail |-> TRUE, returned |-> FALSE]

\* VideoProcessor(), pc telling where its thread is
IdleVideo ==
    [pc |-> "idle", running |-> FALSE, cap |-> "none", frame_count |-> 0,
     signals |-> <<>>, opened |-> "unknown", has_read |-> FALSE, failures |-> 0, passes |-> 0,
     stopped |-> FALSE]

\* the process is not the main window: there is no VideoProcessor
NoVideo == [IdleVideo EXCEPT !.pc = "absent"]

IdleCache ==
    /\ en = IdleEnroll
    /\ vp = NoVideo
    /\ load = [p \in Callers |-> IdleLoad]
    /\ fetched = <<>>
    /\ queries = 0
    /\ wk = IdleWorker

\* the repository is empty and FaceIdentification is as constructed
IdleRest ==
    /\ IdleCache
    /\ users = {}
    /\ templates = <<>>
    /\ accessLog = <<>>
    /\ lists = <<>>
    /\ descriptors_cache = NoList
    /\ cache_timestamp = NoTime
    /\ now = 0
    /\ vlocal = NoVerify

MatchInit ==
    /\ threshold \in Thresholds
    /\ call = NoCall
    /\ ret = NoMatch
    /\ IdleRest

CallCalculateDistance ==
    /\ call = NoCall
    /\ \E d1 \in AnyDescriptors, d2 \in AnyDescriptors :
        /\ call' = [NoCall EXCEPT !.op = "calculate_distance", !.descriptor = d1, !.other = d2]
        /\ ret' = calculate_distance(d1, d2)
        /\ UNCHANGED <<threshold, dbVars, cacheVars, vlocal, loadVars, wk, en, vp>>

CallVerify ==
    /\ call = NoCall
    /\ \E d1 \in GoodDescriptors, d2 \in AnyDescriptors :
        /\ call' = [NoCall EXCEPT !.op = "verify", !.descriptor = d1, !.other = d2]
        /\ ret' = verify(d1, d2, threshold)
        /\ UNCHANGED <<threshold, dbVars, cacheVars, vlocal, loadVars, wk, en, vp>>

CallIdentify ==
    /\ call = NoCall
    /\ \E d \in GoodDescriptors, db \in Databases :
        /\ call' = [NoCall EXCEPT !.op = "identify", !.descriptor = d, !.database = db]
        /\ ret' = identify(d, db, threshold)
        /\ UNCHANGED <<threshold, dbVars, cacheVars, vlocal, loadVars, wk, en, vp>>

CallIdentifyMultiple ==
    /\ call = NoCall
    /\ \E d \in GoodDescriptors, db \in Databases, k \in 0..MaxK :
        /\ call' = [NoCall EXCEPT !.op = "identify_multiple", !.descriptor = d,
                                  !.database = db, !.top_k = k]
        /\ ret' = identify_multiple(d, db, k, threshold)
        /\ UNCHANGED <<threshold, dbVars, cacheVars, vlocal, loadVars, wk, en, vp>>

\* the call returns and the caller may make another
Return ==
    /\ call # NoCall
    /\ call' = NoCall
    /\ ret' = NoMatch
    /\ UNCHANGED <<threshold, dbVars, cacheVars, vlocal, loadVars, wk, en, vp>>

MatchNext ==
    \/ Return
    \/ CallCalculateDistance
    \/ CallVerify
    \/ CallIdentify
    \/ CallIdentifyMultiple

SpecMatch == MatchInit /\ [][MatchNext]_vars

(***************************************************************************)
(* Claims about the recognizer.                                            *)
(***************************************************************************)
\* the distance from the probe of the call to entry i of its database
DistanceTo(i) == calculate_distance(call.descriptor, call.database[i].descriptor)

MinDistance ==
    CHOOSE m \in {DistanceTo(i) : i \in 1..Len(call.database)} :
        \A j \in 1..Len(call.database) : m <= DistanceTo(j)

\* C1: identify returns none on an empty snapshot; on a non-empty one it returns
\* (subject_id, distance) of the entry with the globally minimal distance iff
\* that minimum is <= threshold, and none otherwise; among several entries at
\* the minimum the first in snapshot order is returned.
C1_IdentifyContract ==
    call.op = "identify" =>
        IF call.database = <<>> THEN ~ret.found
        ELSE /\ ret.found <=> MinDistance <= threshold
             /\ ret.found =>
                    /\ ret.distance = MinDistance
                    /\ \E i \in 1..Len(call.database) :
                          /\ DistanceTo(i) = MinDistance
                          /\ \A j \in 1..(i - 1) : DistanceTo(j) # MinDistance
                          /\ ret.user_id = call.database[i].user_id

\* identify broke a tie between entries of two users
C1_Witness ==
    /\ call.op = "identify"
    /\ ret.found
    /\ \E i, j \in 1..Len(call.database) :
          /\ i < j
          /\ DistanceTo(i) = MinDistance
          /\ DistanceTo(j) = MinDistance
          /\ call.database[i].user_id # call.database[j].user_id

\* how many entries of a sequence of matches are of user u at distance d
CountOf(matches, u, d) ==
    Cardinality({i \in 1..Len(matches) : matches[i].user_id = u /\ matches[i].distance = d})

\* how many matches lie at a distance of at most d
CountWithin(matches, d) ==
    Cardinality({i \in 1..Len(matches) : matches[i].distance <= d})

Min(a, b) == IF a <= b THEN a ELSE b

\* C2: identify_multiple returns at most k entries (k a count, 0 or more), in
\* non-decreasing order of distance, which are the k smallest-distance entries
\* of the whole snapshot whatever the recognition threshold is; on an empty
\* snapshot it returns the empty sequence.
C2_TopKContract ==
    call.op = "identify_multiple" =>
        LET all == AllMatches(call.descriptor, call.database)
            n == Len(call.database)
        IN  /\ Len(ret) = Min(call.top_k, n)
            /\ \A i \in 1..(Len(ret) - 1) : ret[i].distance <= ret[i + 1].distance
            /\ \A i \in 1..Len(ret) :
                   CountOf(ret, ret[i].user_id, ret[i].distance)
                       <= CountOf(all, ret[i].user_id, ret[i].distance)
            /\ \A i \in 1..n :
                   CountWithin(ret, all[i].distance)
                       = Min(call.top_k, CountWithin(all, all[i].distance))
            /\ (n = 0 => ret = <<>>)

\* a truncated ranking that holds an entry beyond the recognition threshold
C2_Witness ==
    /\ call.op = "identify_multiple"
    /\ 0 < call.top_k
    /\ call.top_k < Len(call.database)
    /\ Len(ret) = call.top_k
    /\ \E i \in 1..Len(ret) : ret[i].distance > threshold

\* C4: calculate_distance always returns a value (it never raises), +infinity
\* for descriptors of different length, so identify under a finite threshold
\* never returns an entry whose length differs from the probe's.
C4_MismatchIsInfinite ==
    /\ call.op = "calculate_distance" =>
          /\ ret \in 0..Inf
          /\ (Len(call.descriptor) # Len(call.other) <=> ret = Inf)
    /\ (call.op = "identify" /\ ret.found) =>
          /\ ret.distance < Inf
          /\ \E i \in 1..Len(call.database) :
                /\ Len(call.database[i].descriptor) = Len(call.descriptor)
                /\ call.database[i].user_id = ret.user_id
                /\ Norm(call.descriptor, call.database[i].descriptor) = ret.distance

\* identify skipped a leading entry of another length, whose components agree
\* with the probe's, and matched a later entry of another user
C4_Witness ==
    /\ call.op = "identify"
    /\ Len(call.database) >= 2
    /\ Len(call.database[1].descriptor) # Len(call.descriptor)
    /\ \A c \in 1..Len(call.database[1].descriptor) :
           call.database[1].descriptor[c] = call.descriptor[c]
    /\ ret.found
    /\ ret.user_id # call.database[1].user_id
    /\ ret.distance > 0

(***************************************************************************)
(* FaceIdentification: results, the access log, _identify_face and         *)
(* verify_user.                                                            *)
(***************************************************************************)
\* np.array(template.descriptor, dtype=np.float32): an array for a list of
\* numbers of any length, an exception for anything else
np_array(json) == [ok |-> json.kind = "list", val |-> json.val]

\* IdentificationResult()
NewResult == [user_id |-> NoUser, confidence |-> 0, distance |-> 0, success |-> FALSE]

Max(a, b) == IF a >= b THEN a ELSE b

RawConfidence_not_inverted(distance, thr) == (100 * distance) \div thr

\* 1.0 - (distance / threshold)
RawConfidence(distance, thr) == 100 - ((100 * distance) \div thr)

\* max(0.0, min(1.0, confidence))
Clamp(confidence) == Max(0, Min(100, confidence))

\* AccessLogRepository.create(...) and session.commit()
LogRow(user_id, access_type, result, confidence) ==
    [user_id |-> user_id, access_type |-> access_type, result |-> result,
     confidence |-> confidence]

\* a successful result, as _identify_face and verify_user fill it in
SuccessResult(user_id, distance, thr) ==
    [user_id |-> user_id, confidence |-> Clamp(RawConfidence(distance, thr)),
     distance |-> distance, success |-> TRUE]

\* _identify_face returned None: no result, and the rows it logged
Nothing(rows) == [returned |-> FALSE, result |-> NewResult, log |-> rows]
Returned(result, rows) == [returned |-> TRUE, result |-> result, log |-> rows]

\* _identify_face(frame, face_location, access_type) against the list `database`
\* that self._descriptors_cache refers to, with the users table as it is
identify_face(face, database, thr, access_type) ==
    IF ~face.region THEN Nothing(<<>>)
    ELSE IF ~face.encoded THEN Nothing(<<>>)
    ELSE IF face.raises THEN Nothing(<<>>)
    ELSE LET match == identify(face.descriptor, database, thr)
         IN  IF match.found
             THEN IF match.user_id \in users
                  THEN LET result == SuccessResult(match.user_id, match.distance, thr)
                       IN  Returned(result,
                                    <<LogRow(match.user_id, access_type, "success",
                                             result.confidence)>>)
                  ELSE Nothing(<<LogRow(NoUser, access_type, "failure", NoConfidence)>>)
             ELSE Nothing(<<LogRow(NoUser, access_type, "failure", NoConfidence)>>)

\* BiometricTemplateRepository.get_by_user_id
TemplatesOf(user_id) == SelectSeq(templates, LAMBDA t : t.user_id = user_id)

\* the loop of verify_user over the user's templates; raised is an exception
\* of np.array, found is best_template_descriptor is not None
RECURSIVE VerifyLoop(_, _, _, _)
VerifyLoop(descriptor, rows, i, best) ==
    IF i > Len(rows) THEN best
    ELSE LET a == np_array(rows[i].descriptor)
         IN  IF ~a.ok THEN [best EXCEPT !.raised = TRUE]
             ELSE LET distance == calculate_distance(descriptor, a.val)
                  IN  IF distance < best.distance
                      THEN VerifyLoop(descriptor, rows, i + 1,
                                      [raised |-> FALSE, found |-> TRUE,
                                       distance |-> distance, descriptor |-> a.val])
                      ELSE VerifyLoop(descriptor, rows, i + 1, best)

NoBest == [raised |-> FALSE, found |-> FALSE, distance |-> Inf, descriptor |-> <<>>]

(***************************************************************************)
(* Identification and verification attempts against a loaded cache.        *)
(***************************************************************************)
RepoStates == SeqsUpTo(Templates, MaxRepo)

\* the for loop of load_descriptors_cache: the templates np.array accepts,
\* in repository order
RECURSIVE ParseTemplates(_, _)
ParseTemplates(rows, i) ==
    IF i > Len(rows) THEN <<>>
    ELSE LET a == np_array(rows[i].descriptor)
         IN  IF a.ok
             THEN <<[user_id |-> rows[i].user_id, descriptor |-> a.val]>>
                      \o ParseTemplates(rows, i + 1)
             ELSE ParseTemplates(rows, i + 1)

\* every user exists, the repository holds some templates, and the cache was
\* loaded from it at time 0
IdentInit ==
    /\ threshold \in Thresholds
    /\ call = NoCall
    /\ ret = Nothing(<<>>)
    /\ users = UserIds
    /\ templates \in RepoStates
    /\ accessLog = <<>>
    /\ lists = <<ParseTemplates(templates, 1)>>
    /\ descriptors_cache = 1
    /\ cache_timestamp = 0
    /\ now = 0
    /\ vlocal = NoVerify
    /\ IdleCache

Cached == IF descriptors_cache = NoList THEN <<>> ELSE lists[descriptors_cache]

\* one _identify_face call, as identify_frame makes it for a detected face
IdentifyFace ==
    /\ call = NoCall
    /\ vlocal.pc = "idle"
    /\ Len(accessLog) < MaxLog
    /\ \E face \in Faces :
        LET out == identify_face(face, Cached, threshold, "identification")
        IN  /\ call' = [NoCall EXCEPT !.op = "_identify_face", !.descriptor = face.descriptor]
            /\ ret' = out
            /\ accessLog' = accessLog \o out.log
            /\ UNCHANGED <<threshold, users, templates, cacheVars, vlocal, loadVars, wk, en, vp>>

\* verify_user up to the await of UserRepository.get_by_id: detection, the
\* probe, the user's templates, the best distance and the decision; a
\* mismatch is logged and returned here
VerifyUserStart ==
    /\ call = NoCall
    /\ vlocal.pc = "idle"
    /\ Len(accessLog) < MaxLog
    /\ \E frame \in SeqsUpTo(Faces, 1), user_id \in UserIds :
        LET newcall == [NoCall EXCEPT !.op = "verify_user", !.top_k = user_id,
                                      !.descriptor = IF frame = <<>> THEN <<>>
                                                     ELSE frame[1].descriptor]
            rows == TemplatesOf(user_id)
            best == VerifyLoop(frame[1].descriptor, rows, 1, NoBest)
            v == verify(frame[1].descriptor, best.descriptor, threshold)
        IN  /\ call' = newcall
            /\ IF \/ frame = <<>>
                  \/ ~frame[1].region
                  \/ ~frame[1].encoded
                  \/ rows = <<>>
                  \/ best.raised
                  \/ ~best.found
               THEN /\ ret' = Nothing(<<>>)
                    /\ UNCHANGED <<accessLog, vlocal, en, vp>>
               ELSE IF v.is_match
               THEN /\ vlocal' = [pc |-> "get_by_id", user_id |-> user_id,
                                  distance |-> v.distance]
                    /\ UNCHANGED <<ret, accessLog, en, vp>>
               ELSE /\ ret' = Returned(NewResult,
                                       <<LogRow(user_id, "verification", "failure",
                                                NoConfidence)>>)
                    /\ accessLog' = Append(accessLog,
                                           LogRow(user_id, "verification", "failure",
                                                  NoConfidence))
                    /\ UNCHANGED vlocal
            /\ UNCHANGED <<threshold, users, templates, cacheVars, loadVars, wk, en, vp>>

\* verify_user from UserRepository.get_by_id on, after a match
VerifyUserFinish ==
    /\ vlocal.pc = "get_by_id"
    /\ IF vlocal.user_id \in users
       THEN LET result == SuccessResult(vlocal.user_id, vlocal.distance, threshold)
                row == LogRow(vlocal.user_id, "verification", "success", result.confidence)
            IN  /\ ret' = Returned(result, <<row>>)
                /\ accessLog' = Append(accessLog, row)
       ELSE /\ ret' = Returned(NewResult, <<>>)
            /\ UNCHANGED accessLog
    /\ vlocal' = NoVerify
    /\ UNCHANGED <<threshold, call, users, templates, cacheVars, loadVars, wk, en, vp>>

\* UserRepository.delete from the administration panel, in another session:
\* the user's templates go with it (ondelete CASCADE) and the loaded cache
\* keeps its entries
DeleteUser ==
    /\ \E u \in users :
        /\ users' = users \ {u}
        /\ templates' = SelectSeq(templates, LAMBDA t : t.user_id # u)
    /\ UNCHANGED <<threshold, call, ret, accessLog, cacheVars, vlocal, loadVars, wk, en, vp>>

IdentNext ==
    \/ IdentifyFace
    \/ VerifyUserStart
    \/ VerifyUserFinish
    \/ DeleteUser

SpecIdent == IdentInit /\ [][IdentNext]_vars

(***************************************************************************)
(* Claims about the results of identification and verification.            *)
(***************************************************************************)
ResultProduced == call.op \in {"_identify_face", "verify_user"} /\ ret.returned

ClockSteps == {150}

\* templates that enrollments and other writers commit while the system runs
CommittedTemplates ==
    {t \in Templates :
        \/ t.descriptor.kind = "text" /\ t.user_id = 1
        \/ /\ t.descriptor.kind = "list"
           /\ \A c \in 1..Len(t.descriptor.val) : t.descriptor.val[c] = 0
           /\ Len(t.descriptor.val) # DescriptorLen => t.user_id = 1}

\* probes seen by the worker
WorkerFaces ==
    {f \in Faces : f.region /\ (f.encoded => \A c \in 1..DescriptorLen : f.descriptor[c] = 0)}

Frames == SeqsUpTo(WorkerFaces, MaxDetected)

CacheInit ==
    /\ threshold = FACE_RECOGNITION_THRESHOLD
    /\ call = NoCall
    /\ ret = NoMatch
    /\ users = UserIds
    /\ templates = <<>>
    /\ accessLog = <<>>
    /\ lists = <<>>
    /\ descriptors_cache = NoList
    /\ cache_timestamp = NoTime
    /\ now = 0
    /\ vlocal = NoVerify
    /\ IdleCache

Tick ==
    /\ \E dt \in ClockSteps :
        /\ now + dt <= MaxTime
        /\ now' = now + dt
    /\ UNCHANGED <<matchVars, dbVars, lists, descriptors_cache, cache_timestamp,
                   vlocal, loadVars, wk, en, vp>>

\* another session commits a template row
CommitTemplate ==
    /\ Len(templates) < MaxRepo
    /\ \E t \in CommittedTemplates : templates' = Append(templates, t)
    /\ UNCHANGED <<matchVars, users, accessLog, cacheVars, vlocal, loadVars, wk, en, vp>>

CacheFresh_ignores_age(force_reload, cache, timestamp, utcnow) ==
    ~force_reload /\ cache # NoList

\* the test that lets load_descriptors_cache return the existing cache
CacheFresh(force_reload, cache, timestamp, utcnow) ==
    /\ ~force_reload
    /\ cache # NoList
    /\ timestamp # NoTime
    /\ utcnow - timestamp < CACHE_TTL


\* what one load_descriptors_cache(force_reload) call does to the cache and
\* returns; fails says whether the session or the query raises
LoadOutcome(force_reload, fails) ==
    IF CacheFresh(force_reload, descriptors_cache, cache_timestamp, now)
    THEN [lists |-> lists, fetched |-> fetched, cache |-> descriptors_cache,
          timestamp |-> cache_timestamp, queried |-> FALSE,
          count |-> Len(lists[descriptors_cache])]
    ELSE IF fails
    THEN [lists |-> lists, fetched |-> fetched, cache |-> descriptors_cache,
          timestamp |-> cache_timestamp, queried |-> TRUE, count |-> 0]
    ELSE LET descriptors == ParseTemplates(templates, 1)
         IN  [lists |-> Append(lists, descriptors), fetched |-> Append(fetched, templates),
              cache |-> Len(lists) + 1, timestamp |-> now, queried |-> TRUE,
              count |-> Len(descriptors)]

Apply(out) ==
    /\ lists' = out.lists
    /\ fetched' = out.fetched
    /\ descriptors_cache' = out.cache
    /\ cache_timestamp' = out.timestamp
    /\ queries' = queries + (IF out.queried THEN 1 ELSE 0)

\* a call of load_descriptors_cache by start_identification, a script or any
\* other owner of the FaceIdentification object
LoadDescriptorsCache ==
    /\ call = NoCall
    /\ \E force_reload \in BOOLEAN, fails \in BOOLEAN :
        LET out == LoadOutcome(force_reload, fails)
        IN  /\ out.queried => queries < MaxQueries
            /\ call' = [NoCall EXCEPT !.op = "load_descriptors_cache",
                                      !.force_reload = force_reload]
            /\ ret' = [count |-> out.count, queried |-> out.queried,
                       replaced |-> out.cache # descriptors_cache]
            /\ Apply(out)
    /\ UNCHANGED <<threshold, dbVars, now, vlocal, load, wk, en, vp>>

RECURSIVE FacesLoop_aborts_frame(_, _, _, _)
FacesLoop_aborts_frame(faces, i, database, acc) ==
    IF i > Len(faces) THEN acc
    ELSE LET out == identify_face(faces[i], database, threshold, "identification")
         IN  IF ~out.returned THEN [acc EXCEPT !.log = @ \o out.log]
             ELSE FacesLoop_aborts_frame(faces, i + 1, database,
                                         [results |-> Append(acc.results, out.result),
                                          log |-> acc.log \o out.log])

\* the for loop of identify_frame over the faces: the results and the
\* access-log rows of the _identify_face calls, in order
RECURSIVE FacesLoop(_, _, _, _)
FacesLoop(faces, i, database, acc) ==
    IF i > Len(faces) THEN acc
    ELSE LET out == identify_face(faces[i], database, threshold, "identification")
         IN  FacesLoop(faces, i + 1, database,
                       [results |-> IF out.returned THEN Append(acc.results, out.result)
                                    ELSE acc.results,
                        log |-> acc.log \o out.log])

\* "Ensure cache is loaded": the test before the call of load_descriptors_cache
NeedsLoad(cache, heap, age) ==
    IF cache = NoList THEN TRUE ELSE Len(heap[cache]) = 0

\* the age of the cache in use, when there is one
CacheAge == IF cache_timestamp = NoTime THEN 0 ELSE now - cache_timestamp

\* identify_frame(frame): the load when the cache is missing or empty, the
\* early returns (len(None) raises a TypeError, which returns the empty
\* results), then _identify_face for each of the first MAX_FACES_PER_FRAME
\* faces
IdentifyFrameFrom(frames) ==
    /\ call = NoCall
    /\ Len(accessLog) < MaxLog
    /\ \E frame \in frames, fails \in BOOLEAN :
        LET needs == NeedsLoad(descriptors_cache, lists, CacheAge)
            out == IF needs THEN LoadOutcome(FALSE, fails)
                   ELSE [lists |-> lists, fetched |-> fetched, cache |-> descriptors_cache,
                         timestamp |-> cache_timestamp, queried |-> FALSE, count |-> 0]
            database == IF out.cache = NoList THEN <<>> ELSE out.lists[out.cache]
            faces == SubSeq(frame, 1, Min(Len(frame), MaxFacesPerFrame))
            done == IF database = <<>> THEN [results |-> <<>>, log |-> <<>>]
                    ELSE FacesLoop(faces, 1, database, [results |-> <<>>, log |-> <<>>])
        IN  /\ (fails => needs)
            /\ out.queried => queries < MaxQueries
            /\ call' = [NoCall EXCEPT !.op = "identify_frame", !.frame = frame]
            /\ ret' = [results |-> done.results,
                       stale |-> descriptors_cache # NoList /\ CacheAge > CACHE_TTL,
                       queried |-> out.queried]
            /\ accessLog' = accessLog \o done.log
            /\ Apply(out)
    /\ UNCHANGED <<threshold, users, templates, now, vlocal, load, wk, en, vp>>

IdentifyFrame == IdentifyFrameFrom(Frames)

\* the caller takes what the call returned
CacheReturn ==
    /\ call # NoCall
    /\ call' = NoCall
    /\ ret' = NoMatch
    /\ UNCHANGED <<threshold, dbVars, cacheVars, vlocal, loadVars, wk, en, vp>>

CacheNext ==
    \/ Tick
    \/ CommitTemplate
    \/ LoadDescriptorsCache
    \/ IdentifyFrame
    \/ CacheReturn

SpecCache == CacheInit /\ [][CacheNext]_vars

(***************************************************************************)
(* The same two calls step by step, a load by one caller interleaved with  *)
(* an identify_frame pass of the worker.                                   *)
(***************************************************************************)
\* an enrollment of user 1 commits a template row while loads and passes run
CommitUserTemplate ==
    /\ Len(templates) < MaxRepo
    /\ \E t \in CommittedTemplates :
        /\ t.user_id = 1
        /\ templates' = Append(templates, t)
    /\ UNCHANGED <<matchVars, users, accessLog, cacheVars, vlocal, loadVars, wk, en, vp>>

\* frames in which every detected face can be cropped and encoded
EncodedFrames == {frame \in Frames : \A f \in 1..Len(frame) : frame[f].encoded}

\* load_descriptors_cache(force_reload) is entered by caller p: it returns the
\* length of the existing cache, or goes on to the repository
BeginLoad(p, force_reload) ==
    IF CacheFresh(force_reload, descriptors_cache, cache_timestamp, now)
    THEN [load EXCEPT ![p] = [IdleLoad EXCEPT !.pc = "done", !.force = force_reload,
                                              !.hit = TRUE,
                                              !.ret = Len(lists[descriptors_cache])]]
    ELSE [load EXCEPT ![p] = [IdleLoad EXCEPT !.pc = "query", !.force = force_reload]]

\* start_identification and the scripts call it before the worker runs; a
\* caller may force the reload
LoadCall ==
    /\ load["ui"].pc = "idle"
    /\ \E force_reload \in BOOLEAN : load' = BeginLoad("ui", force_reload)
    /\ UNCHANGED <<matchVars, dbVars, cacheVars, vlocal, fetched, queries, wk, en, vp>>

NewList_reuses_cache(heap, cache) == IF cache # NoList THEN cache ELSE Len(heap) + 1

\* descriptors = []: a new list object
NewList(heap, cache) == Len(heap) + 1

\* lists with object id set to items (the object is created when it is new)
Store(heap, id, items) ==
    IF id > Len(heap) THEN Append(heap, items) ELSE [heap EXCEPT ![id] = items]

\* BiometricTemplateRepository.get_all returns the rows, and descriptors = []
LoadQuery(p) ==
    /\ load[p].pc = "query"
    /\ queries < MaxQueries
    /\ LET id == NewList(lists, descriptors_cache)
       IN  /\ lists' = Store(lists, id, <<>>)
           /\ fetched' = Store(fetched, id, templates)
           /\ load' = [load EXCEPT ![p].pc = "parse", ![p].rows = templates,
                                   ![p].queried = TRUE, ![p].target = id, ![p].i = 1]
    /\ queries' = queries + 1
    /\ UNCHANGED <<matchVars, dbVars, descriptors_cache, cache_timestamp, now, vlocal, wk, en, vp>>

\* the session or the query raises: the outer except returns 0
LoadQueryFails(p) ==
    /\ load[p].pc = "query"
    /\ queries < MaxQueries
    /\ load' = [load EXCEPT ![p].pc = "done", ![p].queried = TRUE, ![p].ret = 0]
    /\ queries' = queries + 1
    /\ UNCHANGED <<matchVars, dbVars, cacheVars, vlocal, fetched, wk, en, vp>>

\* one iteration of the for loop over the rows: np.array and append, or the
\* warning for a row np.array rejects
LoadParse(p) ==
    /\ load[p].pc = "parse"
    /\ load[p].i <= Len(load[p].rows)
    /\ LET row == load[p].rows[load[p].i]
           a == np_array(row.descriptor)
       IN  lists' = IF a.ok
                    THEN [lists EXCEPT ![load[p].target] =
                              Append(@, [user_id |-> row.user_id, descriptor |-> a.val])]
                    ELSE lists
    /\ load' = [load EXCEPT ![p].i = @ + 1]
    /\ UNCHANGED <<matchVars, dbVars, descriptors_cache, cache_timestamp, now, vlocal,
                   fetched, queries, wk, en, vp>>

\* self._descriptors_cache = descriptors; self._cache_timestamp = utcnow();
\* return len(descriptors)
LoadPublish(p) ==
    /\ load[p].pc = "parse"
    /\ load[p].i > Len(load[p].rows)
    /\ descriptors_cache' = load[p].target
    /\ cache_timestamp' = now
    /\ load' = [load EXCEPT ![p].pc = "done", ![p].ret = Len(lists[load[p].target])]
    /\ UNCHANGED <<matchVars, dbVars, lists, now, vlocal, fetched, queries, wk, en, vp>>

\* the caller of start_identification takes the count
LoadReturn ==
    /\ load["ui"].pc = "done"
    /\ load' = [load EXCEPT !["ui"] = IdleLoad]
    /\ UNCHANGED <<matchVars, dbVars, cacheVars, vlocal, fetched, queries, wk, en, vp>>

\* identify_frame(frame) is entered: results = []
PassStart ==
    /\ wk.pc = "idle"
    /\ wk.passes < MaxPasses
    /\ \E frame \in EncodedFrames :
        wk' = [IdleWorker EXCEPT !.pc = "ensure", !.passes = wk.passes + 1,
                                 !.frame = frame,
                                 !.stale = (descriptors_cache # NoList /\ CacheAge > CACHE_TTL)]
    /\ UNCHANGED <<matchVars, dbVars, cacheVars, vlocal, loadVars, en, vp>>

PassEnsure ==
    /\ wk.pc = "ensure"
    /\ load["worker"].pc = "idle"
    /\ IF NeedsLoad(descriptors_cache, lists, CacheAge)
       THEN /\ load' = BeginLoad("worker", FALSE)
            /\ wk' = [wk EXCEPT !.pc = "loading"]
       ELSE /\ wk' = [wk EXCEPT !.pc = "check"]
            /\ UNCHANGED load
    /\ UNCHANGED <<matchVars, dbVars, cacheVars, vlocal, fetched, queries, en, vp>>

\* await self.load_descriptors_cache() returns
PassLoaded ==
    /\ wk.pc = "loading"
    /\ load["worker"].pc = "done"
    /\ wk' = [wk EXCEPT !.pc = "check", !.requeried = load["worker"].queried]
    /\ load' = [load EXCEPT !["worker"] = IdleLoad]
    /\ UNCHANGED <<matchVars, dbVars, cacheVars, vlocal, fetched, queries, en, vp>>

\* len(self._descriptors_cache) == 0 returns the empty results, and so does
\* the TypeError of len(None); else the detector's faces, at most
\* MAX_FACES_PER_FRAME of them
PassCheck ==
    /\ wk.pc = "check"
    /\ IF descriptors_cache = NoList \/ Len(Cached) = 0 \/ wk.frame = <<>>
       THEN wk' = [wk EXCEPT !.pc = "done"]
       ELSE wk' = [wk EXCEPT !.pc = "face", !.f = 1,
                             !.frame = SubSeq(wk.frame, 1,
                                              Min(Len(wk.frame), MaxFacesPerFrame))]
    /\ UNCHANGED <<matchVars, dbVars, cacheVars, vlocal, loadVars, en, vp>>

\* _identify_face up to the call self.recognizer.identify(descriptor,
\* self._descriptors_cache): the argument is the list the cache refers to now
PassFace ==
    /\ wk.pc = "face"
    /\ wk.f <= Len(wk.frame)
    /\ LET face == wk.frame[wk.f]
       IN  IF ~face.region \/ ~face.encoded
           THEN wk' = [wk EXCEPT !.f = @ + 1]
           ELSE wk' = [wk EXCEPT !.pc = IF Cached = <<>> THEN "decide" ELSE "scan",
                                 !.ref = descriptors_cache, !.i = 1,
                                 !.best_match = NoUser, !.best_distance = Inf,
                                 !.snap = Cached, !.seen = <<>>]
    /\ UNCHANGED <<matchVars, dbVars, cacheVars, vlocal, loadVars, en, vp>>

\* one iteration of identify's for loop over the list object: the iterator
\* reads element i of the list as it is now
PassScan ==
    /\ wk.pc = "scan"
    /\ IF wk.i > Len(lists[wk.ref])
       THEN wk' = [wk EXCEPT !.pc = "decide"]
       ELSE LET entry == lists[wk.ref][wk.i]
                distance == calculate_distance(wk.frame[wk.f].descriptor, entry.descriptor)
            IN  wk' = [wk EXCEPT !.i = @ + 1,
                                 !.seen = Append(@, entry),
                                 !.best_match = IF distance < wk.best_distance
                                                THEN entry.user_id ELSE @,
                                 !.best_distance = IF distance < wk.best_distance
                                                   THEN distance ELSE @]
    /\ UNCHANGED <<matchVars, dbVars, cacheVars, vlocal, loadVars, en, vp>>

\* the threshold test of identify and the rest of _identify_face: the user
\* row, the result, the access-log row
PassDecide ==
    /\ wk.pc = "decide"
    /\ LET matched == wk.snap # <<>> /\ wk.best_distance <= threshold
           known == matched /\ wk.best_match \in users
           result == SuccessResult(wk.best_match, wk.best_distance, threshold)
       IN  /\ accessLog' =
                 Append(accessLog,
                        IF known
                        THEN LogRow(wk.best_match, "identification", "success",
                                    result.confidence)
                        ELSE LogRow(NoUser, "identification", "failure", NoConfidence))
           /\ wk' = [wk EXCEPT !.pc = "face", !.f = @ + 1,
                               !.results = IF known THEN Append(@, result) ELSE @]
    /\ UNCHANGED <<matchVars, users, templates, cacheVars, vlocal, loadVars, en, vp>>

\* the for loop over the faces is over: return results
PassFacesDone ==
    /\ wk.pc = "face"
    /\ wk.f > Len(wk.frame)
    /\ wk' = [wk EXCEPT !.pc = "done"]
    /\ UNCHANGED <<matchVars, dbVars, cacheVars, vlocal, loadVars, en, vp>>

\* the worker loop takes the results and goes on to the next frame
PassReturn ==
    /\ wk.pc = "done"
    /\ wk' = [IdleWorker EXCEPT !.passes = wk.passes]
    /\ UNCHANGED <<matchVars, dbVars, cacheVars, vlocal, loadVars, en, vp>>

SnapshotNext ==
    \/ CommitUserTemplate
    \/ LoadCall
    \/ \E p \in Callers : LoadQuery(p)
    \/ \E p \in Callers : LoadQueryFails(p)
    \/ \E p \in Callers : LoadParse(p)
    \/ \E p \in Callers : LoadPublish(p)
    \/ LoadReturn
    \/ PassStart
    \/ PassEnsure
    \/ PassLoaded
    \/ PassCheck
    \/ PassFace
    \/ PassScan
    \/ PassDecide
    \/ PassFacesDone
    \/ PassReturn

SpecSnapshot == CacheInit /\ [][SnapshotNext]_vars


(***************************************************************************)
(* UserRegistration: register_user, the loop of _capture_photos read by    *)
(* read, and the database transaction.                                     *)
(***************************************************************************)
MIN_PHOTOS_FOR_REGISTRATION == 5

MAX_PHOTOS_FOR_REGISTRATION == 10

max_consecutive_failures == 10

\* "Process every 3rd frame"
ProcessEvery == 3

MaxFrames == 33

MaxSessions == 1

\* what a frame read from the camera leads to in the loop body: the number of
\* faces detect_faces finds, whether extract_face_region returns an image,
\* whether validate_all reports is_valid, whether encode_face returns a
\* descriptor (a later stage only matters when the ones before it pass)
CameraFrames ==
    {f \in [faces : 0..2, region : BOOLEAN, valid : BOOLEAN, encoded : BOOLEAN] :
        /\ f.faces # 1 => ~f.region
        /\ ~f.region => ~f.valid
        /\ ~f.valid => ~f.encoded}

\* a quality-valid single-face frame whose descriptor extraction succeeds
GoodFrame(f) == f.faces = 1 /\ f.region /\ f.valid /\ f.encoded

Admitted_every_frame(frame_count) == TRUE

\* if frame_count % 3 != 0: continue
Admitted(frame_count) == frame_count % ProcessEvery = 0

Accepted_without_encoding(f) == f.faces = 1 /\ f.region /\ f.valid

\* the loop body after the frame-skip test: every continue before the append
Accepted(f) ==
    /\ f.faces # 0
    /\ ~(f.faces > 1)
    /\ f.region
    /\ f.valid
    /\ f.encoded

\* the dictionary appended to photos_data
Sample(f) == [frame |-> f, descriptor |-> [c \in 1..DescriptorLen |-> 0]]

Shortfall(n) == [kind |-> "shortfall", got |-> n, need |-> MIN_PHOTOS_FOR_REGISTRATION]

RegistrationFailed == [kind |-> "failed", got |-> 0, need |-> 0]

Registered(n) == [kind |-> "registered", got |-> n, need |-> 0]

CaptureMore_one_more(photos_data) == Len(photos_data) <= MAX_PHOTOS_FOR_REGISTRATION

\* while len(photos_data) < MAX_PHOTOS_FOR_REGISTRATION
CaptureMore(photos_data) == Len(photos_data) < MAX_PHOTOS_FOR_REGISTRATION

\* register_user is called; _capture_photos opens the camera, and raises a
\* RuntimeError that register_user turns into a failure result when the
\* camera is not opened
RegisterUser ==
    /\ en.pc \in {"idle", "done"}
    /\ en.sessions < MaxSessions
    /\ \E opened \in BOOLEAN :
        en' = IF opened
              THEN [IdleEnroll EXCEPT !.pc = "capture", !.sessions = en.sessions + 1]
              ELSE [IdleEnroll EXCEPT !.pc = "done", !.sessions = en.sessions + 1,
                                      !.result.message = RegistrationFailed]
    /\ UNCHANGED <<matchVars, dbVars, cacheVars, vlocal, loadVars, wk, vp>>

TooManyFailures_one_late(consecutive_failures) ==
    consecutive_failures > max_consecutive_failures

\* if consecutive_failures >= max_consecutive_failures: break
TooManyFailures(consecutive_failures) ==
    consecutive_failures >= max_consecutive_failures

\* cap.read() returns None
ReadFails ==
    /\ en.pc = "capture"
    /\ CaptureMore(en.photos_data)
    /\ en' = [en EXCEPT !.consecutive_failures = @ + 1,
                        !.pc = IF TooManyFailures(en.consecutive_failures + 1)
                               THEN "captured" ELSE "capture"]
    /\ UNCHANGED <<matchVars, dbVars, cacheVars, vlocal, loadVars, wk, vp>>

\* cap.read() returns a frame: one iteration of the loop
ReadFrame ==
    /\ en.pc = "capture"
    /\ CaptureMore(en.photos_data)
    /\ en.frame_count < MaxFrames
    /\ \E f \in CameraFrames :
        LET frame_count == en.frame_count + 1
            keep == Admitted(frame_count) /\ Accepted(f)
        IN  en' = [en EXCEPT !.consecutive_failures = 0,
                             !.frame_count = frame_count,
                             !.photos_data = IF keep THEN Append(@, Sample(f)) ELSE @,
                             !.valid_read = IF GoodFrame(f) THEN @ + 1 ELSE @,
                             !.valid_at_third =
                                 IF GoodFrame(f) /\ (en.frame_count + 1) % 3 = 0
                                 THEN @ + 1 ELSE @,
                             !.clean_tail = GoodFrame(f)]
    /\ UNCHANGED <<matchVars, dbVars, cacheVars, vlocal, loadVars, wk, vp>>

EnoughPhotos_one_less(n) == ~(n < MIN_PHOTOS_FOR_REGISTRATION - 1)

\* the negation of len(photos_data) < MIN_PHOTOS_FOR_REGISTRATION
EnoughPhotos(n) == ~(n < MIN_PHOTOS_FOR_REGISTRATION)

\* _capture_photos returns photos_data, after the break or when the while
\* condition fails, and register_user tests its length
CaptureReturns ==
    /\ \/ en.pc = "captured"
       \/ en.pc = "capture" /\ ~CaptureMore(en.photos_data)
    /\ en' = IF EnoughPhotos(Len(en.photos_data))
             THEN [en EXCEPT !.pc = "persist", !.returned = TRUE,
                             !.result.photos_captured = Len(en.photos_data)]
             ELSE [en EXCEPT !.pc = "done", !.returned = TRUE,
                             !.result.message = Shortfall(Len(en.photos_data))]
    /\ UNCHANGED <<matchVars, dbVars, cacheVars, vlocal, loadVars, wk, vp>>

\* the steps of the transaction at which an exception can be raised
FailurePoints == {"user", "template", "commit", "none"}

\* the rows BiometricTemplateRepository.create adds for the photos
RECURSIVE TemplateRows(_, _, _)
TemplateRows(photos, i, user_id) ==
    IF i > Len(photos) THEN <<>>
    ELSE <<[user_id |-> user_id,
            descriptor |-> [kind |-> "list", val |-> photos[i].descriptor]]>>
             \o TemplateRows(photos, i + 1, user_id)

\* what the session has flushed when the exception is raised, or at the
\* commit: the user row unless its creation failed, and the templates created
\* before template number k failed
Flushed(photos_data, user_id, fails_at, k) ==
    LET rows == TemplateRows(photos_data, 1, user_id)
    IN  [users |-> IF fails_at = "user" THEN {} ELSE {user_id},
         templates |-> IF fails_at = "user" THEN <<>>
                       ELSE IF fails_at = "template" THEN SubSeq(rows, 1, k - 1)
                       ELSE rows]

\* await session.commit(): the flushed rows become rows of the tables
AfterCommit(user_rows, template_rows, flushed) ==
    [users |-> user_rows \cup flushed.users, templates |-> template_rows \o flushed.templates]

AfterRollback_keeps_flushed(user_rows, template_rows, flushed) ==
    AfterCommit(user_rows, template_rows, flushed)

\* await session.rollback(): the flushed rows are discarded
AfterRollback(user_rows, template_rows, flushed) ==
    [users |-> user_rows, templates |-> template_rows]

\* the async with block of register_user: the reference photo, the user row
\* and flush, one template per photo, the commit; an exception at any point
\* rolls the session back and becomes the "Registration failed" result
Persist ==
    /\ en.pc = "persist"
    /\ \E fails_at \in FailurePoints, k \in 1..Len(en.photos_data) :
        LET user_id == Cardinality(users) + 1
            rows == TemplateRows(en.photos_data, 1, user_id)
            flushed == Flushed(en.photos_data, user_id, fails_at, k)
            tables == IF fails_at = "none"
                      THEN AfterCommit(users, templates, flushed)
                      ELSE AfterRollback(users, templates, flushed)
        IN  IF fails_at = "none"
            THEN /\ users' = tables.users
                 /\ templates' = tables.templates
                 /\ en' = [en EXCEPT !.pc = "done",
                                     !.result.user_id = user_id,
                                     !.result.templates_created = Len(rows),
                                     !.result.success = TRUE,
                                     !.result.message = Registered(Len(rows))]
            ELSE /\ users' = tables.users
                 /\ templates' = tables.templates
                 /\ en' = [en EXCEPT !.pc = "done",
                                     !.result.user_id =
                                         IF fails_at = "user" THEN NoUser ELSE user_id,
                                     !.result.message = RegistrationFailed]
    /\ UNCHANGED <<matchVars, accessLog, cacheVars, vlocal, loadVars, wk, vp>>

EnrollNext ==
    \/ RegisterUser
    \/ ReadFails
    \/ ReadFrame
    \/ CaptureReturns
    \/ Persist

\* nobody is enrolled and no register_user call was made
EnrollInit ==
    /\ threshold = FACE_RECOGNITION_THRESHOLD
    /\ call = NoCall
    /\ ret = NoMatch
    /\ IdleRest

SpecEnroll == EnrollInit /\ [][EnrollNext]_vars

(***************************************************************************)
(* Claims about enrollment.                                                *)
(***************************************************************************)
\* the user row of the result is in the repository
Persisted == en.result.user_id # NoUser /\ en.result.user_id \in users

\* C9 as stated: the terminal result is Completed if and only if the number of
\* samples accumulated when capture ends is at least 5, and otherwise it is
\* Aborted with a message naming the number obtained and the minimum.
C9_AsStated ==
    en.pc = "done" =>
        /\ en.result.success <=> Len(en.photos_data) >= 5
        /\ ~en.result.success =>
            en.result.message = [kind |-> "shortfall", got |-> Len(en.photos_data), need |-> 5]

\* C9, amended: the terminal result is Completed if and only if capture
\* returned at least 5 samples and the transaction that stores the user and
\* the templates committed; when capture returns fewer than 5 samples the
\* result is Aborted with a message naming the number obtained and the
\* minimum; when the camera cannot be opened or the transaction fails the
\* result is Aborted with the "Registration failed" message.
C9_TerminalResult ==
    en.pc = "done" =>
        /\ en.result.success <=>
               (en.returned /\ Len(en.photos_data) >= 5 /\ Persisted)
        /\ (en.returned /\ Len(en.photos_data) < 5) =>
               /\ ~en.result.success
               /\ en.result.message =
                      [kind |-> "shortfall", got |-> Len(en.photos_data), need |-> 5]
        /\ (~en.returned \/ (Len(en.photos_data) >= 5 /\ ~Persisted)) =>
               /\ ~en.result.success
               /\ en.result.message.kind = "failed"

\* a session that captured at least 5 samples and whose transaction failed
C9_Witness ==
    /\ en.pc = "done"
    /\ en.returned
    /\ Len(en.photos_data) >= 5
    /\ ~en.result.success
    /\ en.result.message.kind = "failed"

\* C10 as stated: when the camera yields exactly 4 quality-valid single-face
\* frames with a successful descriptor extraction and every later read fails,
\* the session ends Aborted with a message reporting 4 obtained against 5.
C10_AsStated ==
    (/\ en.pc = "done"
     /\ en.valid_read = 4
     /\ en.clean_tail
     /\ en.consecutive_failures = 10) =>
        /\ ~en.result.success
        /\ en.result.message = [kind |-> "shortfall", got |-> 4, need |-> 5]

\* C10, amended: when exactly 4 of the frames capture admits (every third
\* frame read) are quality-valid single-face frames with a successful
\* descriptor extraction, the fourth of them is the last frame read and every
\* later read fails, the session ends Aborted with a message reporting 4
\* obtained against 5.
C10_FourAdmittedFrames ==
    (/\ en.pc = "done"
     /\ en.valid_at_third = 4
     /\ en.clean_tail
     /\ en.frame_count % 3 = 0
     /\ en.consecutive_failures = 10) =>
        /\ ~en.result.success
        /\ en.result.message = [kind |-> "shortfall", got |-> 4, need |-> 5]

\* a session that ended after 4 valid admitted frames among more valid frames
C10_Witness ==
    /\ en.pc = "done"
    /\ en.valid_at_third = 4
    /\ en.valid_read > 4
    /\ en.clean_tail
    /\ en.frame_count % 3 = 0
    /\ en.consecutive_failures = 10

\* C11 as stated: the number of samples never exceeds 10, and when the camera
\* yields 10 valid frames the session is Completed with exactly 10 samples.
C11_AsStated ==
    /\ Len(en.photos_data) <= 10
    /\ (en.pc = "done" /\ en.valid_read >= 10) =>
           (en.result.success /\ Len(en.photos_data) = 10)

\* C11, amended: the number of samples never exceeds 10; when 10 of the frames
\* capture admits (every third frame read) are valid, capture holds exactly 10
\* samples and the tenth of them is the last thing read from the camera, more
\* frames being available or not; the session is then Completed, with 10
\* photos and 10 templates, if and only if the transaction commits.
C11_SampleCap ==
    /\ Len(en.photos_data) <= 10
    /\ en.valid_at_third >= 10 =>
        /\ Len(en.photos_data) = 10
        /\ en.clean_tail
        /\ en.frame_count % 3 = 0
        /\ en.consecutive_failures = 0
    /\ (en.pc = "done" /\ en.valid_at_third >= 10) =>
        /\ en.result.success <=> Persisted
        /\ en.result.success =>
            /\ en.result.photos_captured = 10
            /\ en.result.templates_created = 10
            /\ Len(SelectSeq(templates, LAMBDA t : t.user_id = en.result.user_id)) = 10

\* a Completed session with 10 samples that stopped while the camera could
\* deliver more frames
C11_Witness ==
    /\ en.pc = "done"
    /\ en.result.success
    /\ Len(en.photos_data) = 10
    /\ en.valid_read > 10
    /\ en.frame_count < MaxFrames

\* a step of the capture loop in which cap.read() delivered a frame
FrameWasRead == en.pc = "capture" /\ en'.frame_count = en.frame_count + 1

\* a step of the capture loop in which cap.read() delivered nothing
ReadHasFailed ==
    /\ en.pc = "capture"
    /\ en'.pc \in {"capture", "captured"}
    /\ en'.frame_count = en.frame_count
    /\ en' # en

C13_SamplesAreValid ==
    /\ [](/\ \A i \in 1..Len(en.photos_data) :
                /\ en.photos_data[i].frame.faces = 1
                /\ en.photos_data[i].frame.valid
                /\ en.photos_data[i].frame.encoded
                /\ Len(en.photos_data[i].descriptor) = DescriptorLen
          /\ Len(en.photos_data) = en.valid_at_third)
    /\ [][(en'.sessions = en.sessions /\ en'.photos_data # en.photos_data) =>
            /\ FrameWasRead
            /\ en'.frame_count % 3 = 0
            /\ \E f \in CameraFrames :
                /\ f.faces = 1 /\ f.valid /\ f.encoded
                /\ en'.photos_data = Append(en.photos_data, Sample(f))]_vars

\* capture holds two samples, has read more valid frames than that, and the
\* frame read last was an admitted one that was rejected
C13_Witness ==
    /\ en.pc = "capture"
    /\ Len(en.photos_data) = 2
    /\ en.valid_read > 2
    /\ en.frame_count % 3 = 0
    /\ en.frame_count > 6
    /\ ~en.clean_tail
    /\ en.consecutive_failures = 0

\* C14 as stated: once at least 5 samples have been accumulated and fewer than
\* 10, the session has a step by which the caller ends capture, without another
\* read of the camera, keeping the samples accumulated so far.
C14_AsStated ==
    (/\ en.pc = "capture"
     /\ Len(en.photos_data) >= 5
     /\ Len(en.photos_data) < 10) =>
        ENABLED (/\ EnrollNext
                 /\ en'.pc \in {"captured", "persist"}
                 /\ en'.photos_data = en.photos_data
                 /\ en'.frame_count = en.frame_count
                 /\ en'.consecutive_failures = en.consecutive_failures)

\* the templates of user u in the repository
StoredTemplates(u) == SelectSeq(templates, LAMBDA t : t.user_id = u)

\* C15: a failure while the user, one of its templates or the commit is
\* written rolls the whole transaction back: when register_user has returned,
\* the repository holds the new user with one template per captured sample, or
\* neither that user nor any template of it, and in the second case the
\* result is success = false with the "Registration failed" diagnostic; no
\* user id ever has templates without its user row, or a user row with fewer
\* templates than the minimum number of samples.
C15_AllOrNothing ==
    /\ \A u \in 1..(MaxSessions + 1) :
        IF u \in users
        THEN Len(StoredTemplates(u)) >= 5
        ELSE Len(StoredTemplates(u)) = 0
    /\ (en.pc = "done" /\ en.returned /\ Len(en.photos_data) >= 5) =>
        IF en.result.success
        THEN /\ en.result.user_id \in users
             /\ Len(StoredTemplates(en.result.user_id)) = Len(en.photos_data)
             /\ en.result.templates_created = Len(en.photos_data)
        ELSE /\ en.result.message.kind = "failed"
             /\ Cardinality(users) + 1 \notin users
             /\ Len(StoredTemplates(Cardinality(users) + 1)) = 0
             /\ en.result.user_id \notin users

\* a session whose transaction failed after the user row and its templates had
\* been flushed
C15_Witness ==
    /\ en.pc = "done"
    /\ en.returned
    /\ Len(en.photos_data) >= 5
    /\ ~en.result.success
    /\ en.result.user_id # NoUser

(***************************************************************************)
(* VideoProcessor of the main window: start_processing and _process_loop   *)
(* in the worker thread, stop_processing called from the window.           *)
(***************************************************************************)
FRAME_SKIP == 3

MaxReadFailures == 3    \* failed reads in a row that the worker's camera gives
MaxWorkerFrames == 3

Emit(signal) == Append(vp.signals, signal)

StartFailed_ignored(started) == FALSE

\* if not self.cap.start()
StartFailed(started) == ~started

\* VideoProcessingThread.run: start_processing up to the call of
\* _process_loop; cap.start() returns whether the camera opened
StartProcessing ==
    /\ vp.pc = "idle"
    /\ \E started \in BOOLEAN :
        vp' = IF StartFailed(started)
              THEN [vp EXCEPT !.pc = "returned", !.running = FALSE, !.frame_count = 0,
                              !.cap = IF started THEN "open" ELSE "closed",
                              !.opened = IF started THEN "yes" ELSE "no",
                              !.signals = Emit("error_occurred")]
              ELSE [vp EXCEPT !.pc = "enter", !.running = TRUE, !.frame_count = 0,
                              !.cap = IF started THEN "open" ELSE "closed",
                              !.opened = IF started THEN "yes" ELSE "no"]
    /\ UNCHANGED <<matchVars, dbVars, cacheVars, vlocal, loadVars, wk, en>>

\* the two tests at the head of _process_loop
LoopEnter ==
    /\ vp.pc = "enter"
    /\ vp' = IF vp.cap = "none" THEN [vp EXCEPT !.pc = "returned"]
             ELSE IF vp.cap # "open"
             THEN [vp EXCEPT !.pc = "returned", !.signals = Emit("error_occurred")]
             ELSE [vp EXCEPT !.pc = "test"]
    /\ UNCHANGED <<matchVars, dbVars, cacheVars, vlocal, loadVars, wk, en>>

\* while self.running, and the finished signal after the loop
LoopTest ==
    /\ vp.pc = "test"
    /\ vp' = IF vp.running THEN [vp EXCEPT !.pc = "read"]
             ELSE [vp EXCEPT !.pc = "returned", !.signals = Emit("finished")]
    /\ UNCHANGED <<matchVars, dbVars, cacheVars, vlocal, loadVars, wk, en>>

\* frame = self.cap.read() and the rest of the iteration up to the test of
\* the frame count; with self.cap cleared by stop_processing the call raises
\* and start_processing reports the exception; a read that returns None goes
\* back to the test (failures counts them in a row, the program does not)
LoopRead ==
    /\ vp.pc = "read"
    /\ \/ /\ vp.cap = "none"
          /\ vp' = [vp EXCEPT !.pc = "returned", !.running = FALSE,
                              !.signals = Emit("error_occurred")]
       \/ /\ vp.cap # "none"
          /\ vp.failures < MaxReadFailures
          /\ vp' = [vp EXCEPT !.pc = "test", !.has_read = TRUE, !.failures = @ + 1]
       \/ /\ vp.cap = "open"
          /\ vp.frame_count < MaxWorkerFrames
          /\ vp' = [vp EXCEPT !.has_read = TRUE, !.failures = 0,
                              !.frame_count = @ + 1,
                              !.signals = Emit("frame_ready"),
                              !.pc = IF (vp.frame_count + 1) % FRAME_SKIP = 0
                                     THEN "identify" ELSE "test"]
    /\ UNCHANGED <<matchVars, dbVars, cacheVars, vlocal, loadVars, wk, en>>

\* identify_frame(frame) run to completion in the worker's event loop, then
\* the loop that unpacks each result as a (face_location, result) pair, which
\* raises for a result object, and the signal for what happened
LoopIdentify ==
    /\ vp.pc = "identify"
    /\ \E frame \in Frames, fails \in BOOLEAN :
        LET needs == NeedsLoad(descriptors_cache, lists, CacheAge)
            out == IF needs THEN LoadOutcome(FALSE, fails)
                   ELSE [lists |-> lists, fetched |-> fetched, cache |-> descriptors_cache,
                         timestamp |-> cache_timestamp, queried |-> FALSE, count |-> 0]
            database == IF out.cache = NoList THEN <<>> ELSE out.lists[out.cache]
            faces == SubSeq(frame, 1, Min(Len(frame), MaxFacesPerFrame))
            done == IF database = <<>> THEN [results |-> <<>>, log |-> <<>>]
                    ELSE FacesLoop(faces, 1, database, [results |-> <<>>, log |-> <<>>])
        IN  /\ (fails => needs)
            /\ out.queried => queries < MaxQueries
            /\ accessLog' = accessLog \o done.log
            /\ Apply(out)
            /\ vp' = [vp EXCEPT !.pc = "test", !.passes = @ + 1,
                                !.signals = IF done.results = <<>>
                                            THEN Emit("faces_identified")
                                            ELSE Emit("error_occurred")]
    /\ UNCHANGED <<matchVars, users, templates, now, vlocal, load, wk, en>>

\* MainWindow.stop_identification calls stop_processing in the thread of the
\* window
StopProcessing ==
    /\ vp.pc \notin {"absent", "idle"}
    /\ ~vp.stopped
    /\ vp' = [vp EXCEPT !.running = FALSE, !.cap = "none", !.stopped = TRUE,
                        !.signals = Emit("finished")]
    /\ UNCHANGED <<matchVars, dbVars, cacheVars, vlocal, loadVars, wk, en>>

WorkerNext ==
    \/ StartProcessing
    \/ LoopEnter
    \/ LoopTest
    \/ LoopRead
    \/ LoopIdentify
    \/ StopProcessing

\* MainWindow.start_identification, in the thread of the window: the call of
\* load_descriptors_cache run to completion, the return when it gives 0
\* (also when it failed), else the processor and its thread. The window
\* starts one thread in the behaviours considered.
StartIdentification ==
    /\ en.pc = "absent"
    /\ vp.pc = "absent"
    /\ \E fails \in BOOLEAN :
        LET out == LoadOutcome(FALSE, fails)
        IN  /\ out.queried => queries < MaxQueries
            /\ Apply(out)
            /\ vp' = IF out.count = 0 THEN vp ELSE IdleVideo
    /\ UNCHANGED <<matchVars, dbVars, now, vlocal, load, wk, en>>

\* the process is the main window, with FaceIdentification as constructed and
\* no thread yet
WindowInit ==
    /\ threshold = FACE_RECOGNITION_THRESHOLD
    /\ call = NoCall
    /\ ret = NoMatch
    /\ users = UserIds
    /\ templates \in SeqsUpTo(CommittedTemplates, MaxRepo)
    /\ accessLog = <<>>
    /\ lists = <<>>
    /\ descriptors_cache = NoList
    /\ cache_timestamp = NoTime
    /\ now = 0
    /\ vlocal = NoVerify
    /\ load = [p \in Callers |-> IdleLoad]
    /\ fetched = <<>>
    /\ queries = 0
    /\ wk = IdleWorker
    /\ en = [IdleEnroll EXCEPT !.pc = "absent"]
    /\ vp = NoVideo

\* a process of the system: scripts/register_user.py or the main window
StartInit == EnrollInit \/ WindowInit

StartNext == EnrollNext \/ StartIdentification \/ WorkerNext

SpecStart == StartInit /\ [][StartNext]_vars

\* C16: when the camera cannot be opened at the start of a session, the
\* session ends with a failure outcome (register_user's "Registration
\* failed" result, the worker's error_occurred signal with running cleared)
\* and no frame is read, no detection or identification runs and nothing is
\* written to the repository, in that step or afterwards.
C16_CameraUnavailable ==
    /\ []((en.pc = "done" /\ ~en.returned) =>
            /\ ~en.result.success
            /\ en.result.message.kind = "failed"
            /\ en.result.user_id = NoUser
            /\ en.frame_count = 0
            /\ en.consecutive_failures = 0
            /\ en.photos_data = <<>>)
    /\ [](vp.opened = "no" =>
            /\ vp.pc = "returned"
            /\ ~vp.running
            /\ ~vp.has_read
            /\ vp.passes = 0
            /\ vp.frame_count = 0
            /\ vp.signals[1] = "error_occurred"
            /\ \A i \in 1..Len(vp.signals) :
                  vp.signals[i] \notin {"frame_ready", "faces_identified"})
    /\ [][((en'.pc = "done" /\ ~en'.returned) \/ vp'.opened = "no") =>
            UNCHANGED <<users, templates, accessLog>>]_vars

\* the worker could not open the camera, and the window has since stopped it
C16_Witness ==
    /\ vp.opened = "no"
    /\ vp.stopped
    /\ vp.signals = <<"error_occurred", "finished">>

(***************************************************************************)
(* Claims about the descriptor cache.                                      *)
(***************************************************************************)
\* C5: load_descriptors_cache(force_reload = false) called while a snapshot
\* younger than the 300-second TTL exists returns that snapshot's count, does
\* not query the repository and leaves the snapshot and its timestamp as they
\* are; a call with force_reload = true, or one made when the snapshot's age
\* has reached the TTL (or when there is no snapshot), queries the repository.
C5_CacheTtl ==
    [][(call.op = "none" /\ call'.op = "load_descriptors_cache") =>
        IF /\ ~call'.force_reload
           /\ descriptors_cache # NoList
           /\ now - cache_timestamp < CACHE_TTL
        THEN /\ ret'.count = Len(lists[descriptors_cache])
             /\ ~ret'.queried
             /\ queries' = queries
             /\ UNCHANGED <<lists, descriptors_cache, cache_timestamp>>
        ELSE /\ ret'.queried
             /\ queries' = queries + 1]_vars

\* a call without force_reload answered from a non-empty snapshot that is 150
\* seconds old
C5_Witness ==
    /\ call.op = "load_descriptors_cache"
    /\ ~call.force_reload
    /\ ~ret.queried
    /\ ret.count > 0
    /\ now - cache_timestamp = 150

\* C6 as stated: an identification pass that starts with a snapshot older than
\* the cache TTL reloads it from the repository.
C6_AsStated ==
    (call.op = "identify_frame" /\ ret.stale) => ret.queried

\* C7: a reload builds a new list and replaces the cache reference in one
\* assignment; the list an identify call scans is never changed under it: the
\* entries the scan has read are a prefix of the snapshot that was current when
\* the call started, the whole of it when the scan ends, and that snapshot is
\* the complete parse of one repository query.
C7_SnapshotIsolation ==
    /\ wk.pc \in {"scan", "decide"} /\ wk.ref # NoList =>
        /\ lists[wk.ref] = wk.snap
        /\ wk.snap = ParseTemplates(fetched[wk.ref], 1)
        /\ Len(wk.seen) <= Len(wk.snap)
        /\ wk.seen = SubSeq(wk.snap, 1, Len(wk.seen))
    /\ wk.pc = "decide" => wk.seen = wk.snap
    /\ descriptors_cache # NoList =>
        lists[descriptors_cache] = ParseTemplates(fetched[descriptors_cache], 1)

\* the worker is in the middle of a scan while a reload has already replaced
\* the cache by a different snapshot
C7_Witness ==
    /\ wk.pc = "scan"
    /\ wk.i > 1
    /\ wk.i <= Len(wk.snap)
    /\ descriptors_cache # wk.ref
    /\ lists[descriptors_cache] # wk.snap

\* the templates of rows that parse into a descriptor of DescriptorLen numbers
RECURSIVE WellFormed(_, _)
WellFormed(rows, i) ==
    IF i > Len(rows) THEN <<>>
    ELSE IF rows[i].descriptor.kind = "list" /\ Len(rows[i].descriptor.val) = DescriptorLen
         THEN <<[user_id |-> rows[i].user_id, descriptor |-> rows[i].descriptor.val]>>
                  \o WellFormed(rows, i + 1)
         ELSE WellFormed(rows, i + 1)

\* C8 as stated: a reload over a repository with malformed templates returns,
\* and the new snapshot holds exactly the well-formed templates in repository
\* order, every entry of the fixed descriptor length, the returned count being
\* the snapshot's length.
C8_AsStated ==
    (call.op = "load_descriptors_cache" /\ ret.replaced) =>
        /\ Cached = WellFormed(fetched[descriptors_cache], 1)
        /\ \A e \in 1..Len(Cached) : Len(Cached[e].descriptor) = DescriptorLen
        /\ ret.count = Len(Cached)

(***************************************************************************)
(* QualityValidator. Scores of validate_lighting are in units of 1/1000,   *)
(* angles in degrees, sizes in pixels.                                     *)
(***************************************************************************)
SHARPNESS_THRESHOLD == 100

FACE_ANGLE_THRESHOLD == 30

min_face_size == 100

\* an image as the checks see it: whether cv2 can convert it (a BGR image, a
\* grayscale one that only validate_sharpness accepts, or neither), the
\* variance of its Laplacian, and the mean and standard deviation of its L
\* channel, which no image has outside mean * (255 - mean) >= deviation^2
Images ==
    {img \in [kind : {"bgr", "gray", "bad"}, variance : {99, 100},
              mean : {0, 29, 30, 125, 220, 221, 255}, contrast : {0, 14, 15, 50}] :
        img.mean * (255 - img.mean) >= img.contrast * img.contrast}

\* FaceLocation.width() and height()
Boxes == [width : {99, 100}, height : {99, 100}]

\* the angle argument: None, or a number
NoAngle == [given |-> FALSE, val |-> 0]

GivenAngle(a) == [given |-> TRUE, val |-> a]

Angles == {NoAngle} \cup {GivenAngle(a) : a \in {-31, -30, 0, 30, 31}}

\* the landmarks argument: None, or an array from which get_face_angle
\* computes the angle val
NoLandmarks == [given |-> FALSE, val |-> 0]

Landmarks == {NoLandmarks} \cup {[given |-> TRUE, val |-> a] : a \in {0, 45}}

\* QualityReport()
NewReport ==
    [is_valid |-> FALSE, sharpness_score |-> 0, lighting_score |-> 0, angle |-> 0,
     angle_valid |-> FALSE, face_size_valid |-> FALSE, issues |-> <<>>]

validate_sharpness(image) ==
    IF image.kind = "bad" THEN [valid |-> FALSE, score |-> 0]
    ELSE [valid |-> image.variance >= SHARPNESS_THRESHOLD, score |-> image.variance]

\* 1.0 - abs(mean_brightness - 125) / 125
brightness_score(mean) == 1000 - 8 * Abs(mean - 125)

\* min(contrast / 50.0, 1.0)
contrast_score(contrast) == Min(20 * contrast, 1000)

validate_lighting(image) ==
    IF image.kind # "bgr" THEN [valid |-> FALSE, score |-> 0]
    ELSE [valid |-> 30 <= image.mean /\ image.mean <= 220 /\ image.contrast >= 15,
          score |-> (brightness_score(image.mean) + contrast_score(image.contrast)) \div 2]

validate_angle(angle) == Abs(angle) <= FACE_ANGLE_THRESHOLD

validate_face_size(face_location) ==
    Min(face_location.width, face_location.height) >= min_face_size

\* the report after the angle branch of validate_all
AngleChecked(report, a) ==
    [report EXCEPT !.angle = a, !.angle_valid = validate_angle(a),
                   !.issues = IF validate_angle(a) THEN @ ELSE Append(@, "angle")]

validate_all_silent_angle(image, face_location, landmarks, angle) ==
    LET sharp == validate_sharpness(image)
        light == validate_lighting(image)
        a == IF angle.given THEN angle.val ELSE landmarks.val
        checked == angle.given \/ landmarks.given
        angle_valid == IF checked THEN validate_angle(a) ELSE TRUE
        size_valid == validate_face_size(face_location)
    IN  [is_valid |-> sharp.valid /\ light.valid /\ angle_valid /\ size_valid,
         sharpness_score |-> sharp.score, lighting_score |-> light.score,
         angle |-> IF checked THEN a ELSE 0, angle_valid |-> angle_valid,
         face_size_valid |-> size_valid,
         issues |-> (IF sharp.valid THEN <<>> ELSE <<"sharpness">>)
                        \o (IF light.valid THEN <<>> ELSE <<"lighting">>)
                        \o (IF size_valid THEN <<>> ELSE <<"size">>)]

validate_all(image, face_location, landmarks, angle) ==
    LET sharp == validate_sharpness(image)
        light == validate_lighting(image)
        r1 == [NewReport EXCEPT !.sharpness_score = sharp.score,
                                !.issues = IF sharp.valid THEN @ ELSE Append(@, "sharpness")]
        r2 == [r1 EXCEPT !.lighting_score = light.score,
                         !.issues = IF light.valid THEN @ ELSE Append(@, "lighting")]
        r3 == IF angle.given THEN AngleChecked(r2, angle.val)
              ELSE IF landmarks.given THEN AngleChecked(r2, landmarks.val)
              ELSE [r2 EXCEPT !.angle_valid = TRUE]
        r4 == [r3 EXCEPT !.face_size_valid = validate_face_size(face_location),
                         !.issues = IF validate_face_size(face_location) THEN @
                                    ELSE Append(@, "size")]
    IN  [r4 EXCEPT !.is_valid =
            sharp.valid /\ light.valid /\ r4.angle_valid /\ r4.face_size_valid]

\* the call of validate_all in _capture_photos: angle is 0.0, or what
\* get_face_angle computes when get_landmarks returned landmarks
capture_quality(image, face_location, landmarks) ==
    validate_all(image, face_location, landmarks,
                 GivenAngle(IF landmarks.given THEN landmarks.val ELSE 0))

CallValidateAll ==
    /\ call = NoCall
    /\ \E image \in Images, face_location \in Boxes, landmarks \in Landmarks,
          angle \in Angles :
        /\ call' = [op |-> "validate_all", image |-> image, face_location |-> face_location,
                    landmarks |-> landmarks, angle |-> angle]
        /\ ret' = validate_all(image, face_location, landmarks, angle)
    /\ UNCHANGED <<threshold, dbVars, cacheVars, vlocal, loadVars, wk, en, vp>>

CallCaptureQuality ==
    /\ call = NoCall
    /\ \E image \in Images, face_location \in Boxes, landmarks \in Landmarks :
        /\ call' = [op |-> "capture_quality", image |-> image,
                    face_location |-> face_location, landmarks |-> landmarks]
        /\ ret' = capture_quality(image, face_location, landmarks)
    /\ UNCHANGED <<threshold, dbVars, cacheVars, vlocal, loadVars, wk, en, vp>>

CallValidateLighting ==
    /\ call = NoCall
    /\ \E image \in Images :
        /\ call' = [op |-> "validate_lighting", image |-> image]
        /\ ret' = validate_lighting(image)
    /\ UNCHANGED <<threshold, dbVars, cacheVars, vlocal, loadVars, wk, en, vp>>

QualityNext ==
    \/ CallValidateAll
    \/ CallCaptureQuality
    \/ CallValidateLighting
    \/ Return

SpecQuality == EnrollInit /\ [][QualityNext]_vars

(***************************************************************************)
(* Claims about the quality checks.                                        *)
(***************************************************************************)
\* the sub-checks of the call that failed, the angle check being one of them
\* only when an angle or landmarks were supplied
FailedChecks ==
    LET image == call.image
        a == IF call.angle.given THEN call.angle.val ELSE call.landmarks.val
    IN  (IF image.kind # "bad" /\ image.variance >= 100 THEN {} ELSE {"sharpness"})
        \cup (IF image.kind = "bgr" /\ image.mean >= 30 /\ image.mean <= 220
                 /\ image.contrast >= 15 THEN {} ELSE {"lighting"})
        \cup (IF (call.angle.given \/ call.landmarks.given) /\ (a > 30 \/ a < -30)
              THEN {"angle"} ELSE {})
        \cup (IF call.face_location.width >= 100 /\ call.face_location.height >= 100
              THEN {} ELSE {"size"})

\* C17: validate_all returns is_valid = sharpness ok and lighting ok and angle
\* ok and size ok, and as many issues as sub-checks failed, the angle check
\* not being counted when neither an angle nor landmarks are supplied.
C17_ValidIsConjunction ==
    call.op = "validate_all" =>
        /\ ret.is_valid <=> FailedChecks = {}
        /\ Len(ret.issues) = Cardinality(FailedChecks)
        /\ \A i \in 1..Len(ret.issues) : ret.issues[i] \in FailedChecks
        /\ (~call.angle.given /\ ~call.landmarks.given) =>
              (ret.angle_valid /\ "angle" \notin FailedChecks)

\* a call without angle source in which two sub-checks fail
C17_Witness ==
    /\ call.op = "validate_all"
    /\ ~call.angle.given
    /\ ~call.landmarks.given
    /\ ~ret.is_valid
    /\ Len(ret.issues) = 2

\* C18 as stated: without angle source the angle check is skipped and treated
\* as valid, and the report differs from the report for the same image and
\* box when an angle of 0 is supplied; on the enrollment path too, when the
\* landmark predictor returns none.
C18_AsStated ==
    /\ (call.op = "validate_all" /\ ~call.angle.given /\ ~call.landmarks.given) =>
        /\ ret.angle_valid
        /\ ret # validate_all(call.image, call.face_location, NoLandmarks, GivenAngle(0))
    /\ (call.op = "capture_quality" /\ ~call.landmarks.given) =>
        /\ ret.angle_valid
        /\ ret # validate_all(call.image, call.face_location, NoLandmarks, GivenAngle(0))

\* C19 as stated: the lighting score of an image is the average of two terms
\* clamped to [0,1], so it is in [0,1] for every mean luminance in 0..255 and
\* every spread, and the check is valid iff the mean is in [30,220] and the
\* spread is at least 15.
C19_AsStated ==
    (call.op = "validate_lighting" /\ call.image.kind = "bgr") =>
        /\ ret.score >= 0
        /\ ret.score <= 1000
        /\ ret.valid <=>
              (call.image.mean >= 30 /\ call.image.mean <= 220 /\ call.image.contrast >= 15)

(***************************************************************************)
(* Claims about the results of identify_frame.                             *)
(***************************************************************************)
\* the faces of the frame of the call that are within the per-frame cap and
\* whose region and descriptor were extracted
ExtractedFaces ==
    {i \in 1..Min(Len(call.frame), MaxFacesPerFrame) :
        call.frame[i].region /\ call.frame[i].encoded}

\* C20 as stated: with descriptors in the cache, identify_frame returns one
\* MatchResult per face within the cap whose region and descriptor were
\* extracted, with success and the subject id when identify found a match and
\* with success = false and no subject id when it did not.
C20_AsStated ==
    (call.op = "identify_frame" /\ Cached # <<>>) =>
        /\ Len(ret.results) = Cardinality(ExtractedFaces)
        /\ \A i \in 1..Len(ret.results) :
              ret.results[i].success <=> ret.results[i].user_id # NoUser

(***************************************************************************)
(* Claims about the access log.                                            *)
(***************************************************************************)
\* the step is the return of an attempt: of _identify_face, of verify_user
\* before the user is looked up, or of verify_user after it
AttemptReturns ==
    \/ call = NoCall /\ call'.op = "_identify_face"
    \/ call = NoCall /\ call'.op = "verify_user" /\ vlocal'.pc = "idle"
    \/ vlocal.pc = "get_by_id" /\ vlocal'.pc = "idle"

\* the attempt that returns extracted a probe and compared it: with the cache
\* in _identify_face, with the first of the user's templates in verify_user
ProbeCompared ==
    /\ call'.descriptor # <<>>
    /\ call'.op = "verify_user" /\ vlocal.pc = "idle" =>
          /\ TemplatesOf(call'.top_k) # <<>>
          /\ np_array(TemplatesOf(call'.top_k)[1].descriptor).ok

\* C21 as stated: every identification or verification attempt that reaches
\* the matching step writes exactly one access-log entry: 'success' with the
\* subject id and confidence when it succeeds, 'failure' otherwise.
C21_AsStated ==
    [][(AttemptReturns /\ ProbeCompared) =>
          /\ Len(accessLog') = Len(accessLog) + 1
          /\ LET row == accessLog'[Len(accessLog')]
             IN  IF ret'.returned /\ ret'.result.success
                 THEN /\ row.result = "success"
                      /\ row.user_id = ret'.result.user_id
                      /\ row.confidence = ret'.result.confidence
                 ELSE row.result = "failure"]_vars

(***************************************************************************)
(* identify_frame on frames with several faces, more than the per-frame    *)
(* cap among them, against a loaded cache.                                 *)
(***************************************************************************)
\* the faces of a frame: those of Faces whose descriptor, if any, has the
\* same value in every component, and one for which the session raises
DetectedFaces ==
    {f \in Faces : \A c \in 1..Len(f.descriptor) : f.descriptor[c] = f.descriptor[1]}
        \cup {[region |-> TRUE, encoded |-> TRUE, raises |-> TRUE,
                descriptor |-> [c \in 1..DescriptorLen |-> 0]]}

DetectedFrames == SeqsUpTo(DetectedFaces, MaxFacesPerFrame + 1)

\* templates of enrolled users: descriptors of full length; FrameInit takes
\* one per user, in the order of the users' ids
GalleryTemplates ==
    {t \in Templates :
        /\ t.descriptor.kind = "list"
        /\ Len(t.descriptor.val) = DescriptorLen
        /\ \A c \in 1..DescriptorLen : t.descriptor.val[c] = t.descriptor.val[1]}

\* the cache was loaded from the repository at time 0; a user may have been
\* deleted since
FrameInit ==
    /\ threshold = FACE_RECOGNITION_THRESHOLD
    /\ call = NoCall
    /\ ret = NoMatch
    /\ users \in {UserIds, UserIds \ {1}}
    /\ \E rows \in SeqsUpTo(GalleryTemplates, MaxUser) :
        /\ \A t \in 1..Len(rows) : rows[t].user_id = t
        /\ lists = <<ParseTemplates(rows, 1)>>
        /\ templates = SelectSeq(rows, LAMBDA t : t.user_id \in users)
    /\ accessLog = <<>>
    /\ descriptors_cache = 1
    /\ cache_timestamp = 0
    /\ now = 0
    /\ vlocal = NoVerify
    /\ IdleCache

IdentifyDetected == IdentifyFrameFrom(DetectedFrames)

FrameNext ==
    \/ IdentifyDetected
    \/ CacheReturn

SpecFrame == FrameInit /\ [][FrameNext]_vars

(***************************************************************************)
(* Claims about the faces of a frame.                                      *)
(***************************************************************************)
\* the positions in the frame of the call that identify_frame processes
Processed(c) == 1..Min(Len(c.frame), MaxFacesPerFrame)

\* the processed faces whose probe was compared with the cache
ComparedFaces(c) ==
    {i \in Processed(c) : c.frame[i].region /\ c.frame[i].encoded /\ ~c.frame[i].raises}

\* the compared faces that match an entry of the cache `database` whose user
\* exists
MatchedFaces(c, database) ==
    {i \in ComparedFaces(c) :
        /\ identify(c.frame[i].descriptor, database, threshold).found
        /\ identify(c.frame[i].descriptor, database, threshold).user_id \in users}

\* the matches of the compared faces from position i on, in the order of the
\* frame
RECURSIVE MatchesFrom(_, _, _)
MatchesFrom(c, database, i) ==
    IF i > Min(Len(c.frame), MaxFacesPerFrame) THEN <<>>
    ELSE LET match == identify(c.frame[i].descriptor, database, threshold)
         IN  IF i \in ComparedFaces(c) /\ match.found /\ match.user_id \in users
             THEN <<[user_id |-> match.user_id, distance |-> match.distance,
                     success |-> TRUE]>> \o MatchesFrom(c, database, i + 1)
             ELSE MatchesFrom(c, database, i + 1)

\* C22: identify_frame processes only the first MAX_FACES_PER_FRAME faces, in
\* detector order and independently: a face whose region or descriptor is not
\* extracted, or for which an exception is raised, does not keep the faces
\* after it from being processed, and the results are in detector order.
C22_FacesIndependent ==
    [][(call = NoCall /\ call'.op = "identify_frame" /\ descriptors_cache' # NoList
            /\ lists'[descriptors_cache'] # <<>>) =>
          /\ [k \in 1..Len(ret'.results) |->
                [user_id |-> ret'.results[k].user_id,
                 distance |-> ret'.results[k].distance,
                 success |-> ret'.results[k].success]]
                = MatchesFrom(call', lists'[descriptors_cache'], 1)
          /\ Len(accessLog') = Len(accessLog) + Cardinality(ComparedFaces(call'))]_vars

\* a frame with one face more than the cap: an exception for the first face,
\* the second one identified, the third one not processed though it would
\* match
C22_Witness ==
    /\ call.op = "identify_frame"
    /\ Len(call.frame) = MaxFacesPerFrame + 1
    /\ call.frame[1].raises
    /\ Len(ret.results) = 1
    /\ Len(accessLog) = 1
    /\ MatchedFaces(call, Cached) = {2}
    /\ LET last == call.frame[Len(call.frame)]
       IN  /\ last.region /\ last.encoded /\ ~last.raises
           /\ identify(last.descriptor, Cached, threshold).found

(***************************************************************************)
(* Claims about the identification worker.                                 *)
(***************************************************************************)
\* the step is the worker's self.cap.read() and what follows it in the
\* iteration
WorkerReads == vp.pc = "read" /\ vp'.pc # "read"

\* C23 as stated: the worker polls its stop flag once per iteration and is not
\* preempted mid-frame: after a stop request the iteration in progress
\* completes and the loop exits with the frame source released, and in no
\* interleaving does the worker read from a frame source that was released or
\* cleared.
C23_AsStated ==
    /\ [][WorkerReads => (vp.cap # "none" /\ ~vp.stopped)]_vars
    /\ []((vp.stopped /\ vp.pc = "returned" /\ vp.opened = "yes") =>
            /\ vp.cap = "none"
            /\ vp.signals[Len(vp.signals)] = "finished")

\* the step is one of the worker loop: a read of a frame or an identification
\* pass
WorkerLoopStep == vp.pc \in {"read", "identify"} /\ vp'.pc # vp.pc

\* C24 as stated: frame reads, descriptor extraction and cache reloads are
\* executed only by the worker loop; no step of the window's thread reads a
\* frame, extracts a descriptor or reloads the cache.
C24_AsStated ==
    [][(\/ queries' # queries
        \/ descriptors_cache' # descriptors_cache
        \/ vp'.has_read # vp.has_read
        \/ vp'.frame_count # vp.frame_count
        \/ vp'.passes # vp.passes) => (en.pc # "absent" \/ WorkerLoopStep)]_vars

\* C25 as stated: in the identification loop frame-read failures in a row are
\* retried up to a bounded count only; when the bound is exceeded the session
\* ends with a fatal error. Here for every bound below MaxReadFailures.
C25_AsStated ==
    vp.failures >= MaxReadFailures =>
        /\ vp.pc = "returned"
        /\ vp.signals # <<>>
        /\ vp.signals[Len(vp.signals)] = "error_occurred"

\* the step is an identification pass of the worker in which identify_frame
\* returned results: each of them wrote a 'success' row to the access log
PassWithResults ==
    /\ vp.pc = "identify"
    /\ vp'.pc # "identify"
    /\ \E r \in Len(accessLog) + 1..Len(accessLog') : accessLog'[r].result = "success"

\* C26 as stated: for every admitted frame on which identify_frame returns a
\* non-empty list the worker emits exactly one faces_identified event, emits
\* no error_occurred event for that frame, and keeps running.
C26_AsStated ==
    [][PassWithResults =>
          /\ vp'.signals = Append(vp.signals, "faces_identified")
          /\ vp'.running = vp.running]_vars

(***************************************************************************)
(* Claims about verify_user.                                               *)
(***************************************************************************)
\* the distances from the probe to the templates rows, each of which is a
\* list of numbers
TemplateDistances(probe, rows) ==
    {IF Len(rows[i].descriptor.val) = Len(probe)
     THEN Norm(probe, rows[i].descriptor.val) ELSE Inf : i \in 1..Len(rows)}

\* a face was detected and encoded, the claimed user has templates (all of
\* them lists of numbers), and the least of their distances to the probe is
\* within the threshold
ProbeMatchesUser(probe, rows) ==
    /\ probe # <<>>
    /\ rows # <<>>
    /\ \A i \in 1..Len(rows) : rows[i].descriptor.kind = "list"
    /\ \E d \in TemplateDistances(probe, rows) :
          /\ d <= threshold
          /\ \A e \in TemplateDistances(probe, rows) : d <= e

\* C27: verify_user reports success iff a face is detected and encoded, the
\* claimed user has at least one template, the minimum distance between the
\* probe and the user's templates is <= threshold (boundary included) and the
\* user record exists; the distance reported is that minimum over all of the
\* user's templates.
C27_VerifySuccess ==
    [][/\ (call = NoCall /\ call'.op = "verify_user" /\ vlocal'.pc = "idle") =>
             /\ ~ret'.result.success
             /\ ~ProbeMatchesUser(call'.descriptor, TemplatesOf(call'.top_k))
       /\ (call = NoCall /\ call'.op = "verify_user" /\ vlocal'.pc = "get_by_id") =>
             /\ ProbeMatchesUser(call'.descriptor, TemplatesOf(call'.top_k))
             /\ vlocal'.user_id = call'.top_k
             /\ vlocal'.distance \in TemplateDistances(call'.descriptor,
                                                       TemplatesOf(call'.top_k))
             /\ \A e \in TemplateDistances(call'.descriptor, TemplatesOf(call'.top_k)) :
                   vlocal'.distance <= e
       /\ (vlocal.pc = "get_by_id" /\ vlocal'.pc = "idle") =>
             /\ ret'.result.success <=> vlocal.user_id \in users
             /\ ret'.result.success =>
                   /\ ret'.returned
                   /\ ret'.result.user_id = vlocal.user_id
                   /\ ret'.result.distance = vlocal.distance]_vars

\* a verification that succeeded at the boundary, distance = threshold, on
\* the second of the user's two templates, the first being farther away
C27_Witness ==
    /\ call.op = "verify_user"
    /\ ret.returned
    /\ ret.result.success
    /\ ret.result.distance = threshold
    /\ Len(TemplatesOf(call.top_k)) = 2
    /\ TemplatesOf(call.top_k)[1].descriptor.kind = "list"
    /\ calculate_distance(call.descriptor, TemplatesOf(call.top_k)[1].descriptor.val)
           > threshold

(***************************************************************************)
(* Termination of enrollment. The capture loop uses frame_count only in    *)
(* the test frame_count % 3, so here it is kept modulo 3 and a camera can  *)
(* deliver frames forever.                                                 *)
(***************************************************************************)
\* cap.read() returns a frame: one iteration of the loop
ReadFrameCyclic ==
    /\ en.pc = "capture"
    /\ CaptureMore(en.photos_data)
    /\ \E f \in CameraFrames :
        LET frame_count == (en.frame_count + 1) % ProcessEvery
            keep == Admitted(frame_count) /\ Accepted(f)
        IN  en' = [en EXCEPT !.consecutive_failures = 0,
                             !.frame_count = frame_count,
                             !.photos_data = IF keep THEN Append(@, Sample(f)) ELSE @]
    /\ UNCHANGED <<matchVars, dbVars, cacheVars, vlocal, loadVars, wk, vp>>

LiveNext ==
    \/ RegisterUser
    \/ ReadFails
    \/ ReadFrameCyclic
    \/ CaptureReturns
    \/ Persist

\* the process runs on while it has a step to take
SpecEnrollLive == EnrollInit /\ [][LiveNext]_vars /\ WF_vars(LiveNext)

\* C28 as stated: every enrollment session eventually reaches a terminal
\* result, Completed or Aborted, for every behaviour of the camera, also one
\* that keeps delivering frames with no acceptable single face.
C28_AsStated == (en.pc = "capture") ~> (en.pc = "done")

\* C29 as stated: whenever register_user returns a result with success =
\* false, the result refers to nothing persisted: its user_id is none and
\* templates_created is 0, also when the failure came after the user row was
\* flushed and the transaction was rolled back.
C29_AsStated ==
    (en.pc = "done" /\ ~en.result.success) =>
        /\ en.result.user_id = NoUser
        /\ en.result.templates_created = 0

(***************************************************************************)
(* Claims about a failing repository query.                                *)
(***************************************************************************)
\* the step is a call in which the repository was queried and the query or
\* its session raised: the cache reference was not replaced
QueryFailed(op) ==
    /\ call = NoCall
    /\ call'.op = op
    /\ queries' = queries + 1
    /\ Len(lists') = Len(lists)

\* C30 as stated: if the repository query fails during load_descriptors_cache
\* the snapshot loaded before and its timestamp are left as they are, and the
\* count returned is the number of entries of the snapshot that
\* identification goes on using; identify_frame does not raise as a result,
\* also when no snapshot was ever loaded.
C30_AsStated ==
    [][/\ QueryFailed("load_descriptors_cache") =>
             /\ UNCHANGED <<lists, descriptors_cache, cache_timestamp>>
             /\ ret'.count = Len(Cached')
       /\ QueryFailed("identify_frame") =>
             /\ UNCHANGED <<lists, descriptors_cache, cache_timestamp>>
             /\ ret'.results = <<>>]_vars

=============================================================================
